---------------------------- MODULE Spec2Model ----------------------------
(***************************************************************************)
(* A model of the questionnaire cleaner (data_cleaner.py): load_data and   *)
(* clean_data of QuestionnaireCleaner, with the column resolver, the value *)
(* normalizers and the suggestion classifier computed as the code computes *)
(* them.  Text is a sequence of one-character strings, so that lower(),    *)
(* strip(), replace(), title() and the regular expressions act on          *)
(* characters as they do in Python.                                        *)
(***************************************************************************)
EXTENDS Integers, Sequences, FiniteSets, TLC

VARIABLES pc, df, out, out2, err

vars == <<pc, df, out, out2, err>>

---------------------------------------------------------------------------
(* Characters and Python's str methods.                                    *)

UpperChars == <<"A","B","C","D","E","F","G","H","I","J","K","L","M","N","O","P","Q","R","S","T","U","V","W","X","Y","Z">>
LowerChars == <<"a","b","c","d","e","f","g","h","i","j","k","l","m","n","o","p","q","r","s","t","u","v","w","x","y","z">>
DigitChars == <<"0","1","2","3","4","5","6","7","8","9">>

Range(f) == {f[i] : i \in DOMAIN f}

UpperSet == Range(UpperChars)
LowerSet == Range(LowerChars)
DigitSet == Range(DigitChars)

IsUpper(c) == c \in UpperSet
IsLower(c) == c \in LowerSet
IsLetter(c) == IsUpper(c) \/ IsLower(c)
IsDigit(c) == c \in DigitSet
\* \s of re, and the characters str.strip() removes
IsSpace(c) == c \in {" ", "\t", "\n", "\r"}
\* \w of re
IsWord(c) == IsLetter(c) \/ IsDigit(c) \/ c = "_"

ToLower == [c \in UpperSet |-> LowerChars[CHOOSE i \in DOMAIN UpperChars : UpperChars[i] = c]]
ToUpper == [c \in LowerSet |-> UpperChars[CHOOSE i \in DOMAIN LowerChars : LowerChars[i] = c]]

LowerChar(c) == IF IsUpper(c) THEN ToLower[c] ELSE c

UpperChar(c) == IF IsLower(c) THEN ToUpper[c] ELSE c

\* str.lower()
Lower(s) == [i \in 1..Len(s) |-> LowerChar(s[i])]

\* str.strip()
Strip(s) ==
    LET keep == {i \in 1..Len(s) : ~IsSpace(s[i])}
    IN  IF keep = {} THEN <<>>
        ELSE LET lo == CHOOSE i \in keep : \A j \in keep : i <= j
                 hi == CHOOSE i \in keep : \A j \in keep : j <= i
             IN  SubSeq(s, lo, hi)

\* str.replace(a, b) for one-character a and b
ReplaceChar(s, a, b) == [i \in 1..Len(s) |-> IF s[i] = a THEN b ELSE s[i]]

\* str.title(): a letter is upper-cased when the character before it is not
\* a letter, and lower-cased otherwise
Title(s) ==
    [i \in 1..Len(s) |->
        IF i > 1 /\ IsLetter(s[i-1]) THEN LowerChar(s[i]) ELSE UpperChar(s[i])]

\* re.sub(r'[^\w\s.,;!?]', '', s)
RECURSIVE StripSpecial(_)
StripSpecial(s) ==
    IF s = <<>> THEN <<>>
    ELSE LET c == Head(s)
         IN  IF IsWord(c) \/ IsSpace(c) \/ c \in {".", ",", ";", "!", "?"}
             THEN <<c>> \o StripSpecial(Tail(s))
             ELSE StripSpecial(Tail(s))

---------------------------------------------------------------------------
(* Regular expressions: an expression is a sequence of alternatives, an    *)
(* alternative a sequence of items.  Matching is case-insensitive (re.I).  *)

Item(t, c, g) == [t |-> t, c |-> c, g |-> g]
Ch(c)     == Item("lit", c, <<>>)      \* the character c
Opt(c)    == Item("opt", c, <<>>)      \* c?
AnyOpt    == Item("any?", "", <<>>)    \* .?
WordEnd   == Item("wb", "", <<>>)      \* \b
Spaces    == Item("ws*", "", <<>>)     \* \s*
Digit     == Item("dig", "", <<>>)     \* \d
OptGrp(g) == Item("grp?", "", g)       \* (?:g)?
Lit(s)    == [i \in 1..Len(s) |-> Ch(s[i])]

HasAt(s, i, g) ==
    /\ i + Len(g) - 1 <= Len(s)
    /\ \A k \in 1..Len(g) : LowerChar(s[i + k - 1]) = g[k]

\* \b at position i (between s[i-1] and s[i])
Boundary(s, i) ==
    LET before == i > 1 /\ IsWord(s[i-1])
        after  == i <= Len(s) /\ IsWord(s[i])
    IN  before # after

RECURSIVE MatchFrom(_, _, _, _)
MatchFrom(p, k, s, i) ==
    IF k > Len(p) THEN TRUE
    ELSE LET it == p[k]
             here == i <= Len(s)
         IN  CASE it.t = "lit" ->
                    here /\ LowerChar(s[i]) = it.c /\ MatchFrom(p, k+1, s, i+1)
               [] it.t = "opt" ->
                    \/ here /\ LowerChar(s[i]) = it.c /\ MatchFrom(p, k+1, s, i+1)
                    \/ MatchFrom(p, k+1, s, i)
               [] it.t = "any?" ->
                    \/ here /\ s[i] # "\n" /\ MatchFrom(p, k+1, s, i+1)
                    \/ MatchFrom(p, k+1, s, i)
               [] it.t = "wb" ->
                    Boundary(s, i) /\ MatchFrom(p, k+1, s, i)
               [] it.t = "ws*" ->
                    \/ MatchFrom(p, k+1, s, i)
                    \/ here /\ IsSpace(s[i]) /\ MatchFrom(p, k, s, i+1)
               [] it.t = "dig" ->
                    here /\ IsDigit(s[i]) /\ MatchFrom(p, k+1, s, i+1)
               [] it.t = "grp?" ->
                    \/ HasAt(s, i, it.g) /\ MatchFrom(p, k+1, s, i + Len(it.g))
                    \/ MatchFrom(p, k+1, s, i)

\* re.search(rx, s, re.I) is not None
Search(rx, s) ==
    \E a \in 1..Len(rx) : \E i \in 1..(Len(s) + 1) : MatchFrom(rx[a], 1, s, i)

---------------------------------------------------------------------------
(* The tables of QuestionnaireCleaner.__init__, in declaration order.      *)

standard_columns == <<
    [std |-> <<"t","i","m","e","s","t","a","m","p">>,
     variations |-> << <<"t","i","m","e","s","t","a","m","p">>, <<"d","a","t","e">>, <<"t","i","m","e">>, <<"d","a","t","e","t","i","m","e">> >>],
    [std |-> <<"d","e","p","a","r","t","m","e","n","t">>,
     variations |-> << <<"w","h","i","c","h"," ","d","e","p","a","r","t","m","e","n","t"," ","a","r","e"," ","y","o","u"," ","i","n","?">>, <<"d","e","p","a","r","t","m","e","n","t">>, <<"d","e","p","t">> >>],
    [std |-> <<"j","o","b","_","r","o","l","e">>,
     variations |-> << <<"r","o","l","e",":">>, <<"j","o","b","_","r","o","l","e">>, <<"r","o","l","e">> >>],
    [std |-> <<"a","i","_","t","o","o","l">>,
     variations |-> << <<"w","h","a","t"," ","a","i"," ","t","o","o","l","(","s",")"," ","d","o"," ","y","o","u"," ","u","s","e"," ","m","o","s","t","?">>, <<"a","i","_","t","o","o","l">> >>],
    [std |-> <<"u","s","a","g","e","_","f","r","e","q","u","e","n","c","y">>,
     variations |-> << <<"u","s","a","g","e"," ","o","f"," ","a","i"," ","t","o","o","l","s">>, <<"u","s","a","g","e","_","f","r","e","q","u","e","n","c","y">> >>],
    [std |-> <<"p","u","r","p","o","s","e">>,
     variations |-> << <<"p","u","r","p","o","s","e"," ","o","f"," ","u","s","i","n","g"," ","a","i"," ","t","o","o","l","s">>, <<"p","u","r","p","o","s","e">> >>],
    [std |-> <<"e","a","s","e","_","o","f","_","u","s","e">>,
     variations |-> << <<"e","a","s","e"," ","o","f"," ","u","s","e"," ","(","r","a","t","i","n","g"," ","1","-","5",","," ","5"," ","="," ","e","a","s","i","e","s","t",")">>, <<"e","a","s","e","_","o","f","_","u","s","e">> >>],
    [std |-> <<"t","i","m","e","_","s","a","v","e","d">>,
     variations |-> << <<"h","o","w"," ","e","f","f","i","c","i","e","n","c","y"," ","d","o"," ","t","h","e"," ","a","i"," ","t","o","o","l","s"," ","w","o","r","k","s"," ","f","o","r"," ","y","o","u","r"," ","t","a","s","k","s","?"," ","(","5"," ","="," ","m","o","s","t"," ","e","f","f","i","c","i","e","n","t",")">>,
                       <<"t","i","m","e","_","s","a","v","e","d">> >>],
    [std |-> <<"s","u","g","g","e","s","t","i","o","n","s">>,
     variations |-> << <<"a","n","y"," ","s","u","g","g","e","s","t","i","o","n","s"," ","o","r"," ","i","m","p","r","o","v","e","m","e","n","t"," ","f","o","r"," ","u","s"," ","a","b","o","u","t"," ","t","h","e"," ","a","i"," ","t","o","o","l","s"," ","o","r"," ","o","u","r"," ","w","e","b","s","i","t","e"," ","("," ","p","r","o","j","e","c","t","f","l","y"," ",")","?">>,
                       <<"s","u","g","g","e","s","t","i","o","n","s">> >>] >>

tool_standardization == <<
    [rx |-> << Lit(<<"c","h","a","t">>) \o <<AnyOpt>> \o Lit(<<"g","p","t">>) >>,       name |-> <<"C","h","a","t","G","P","T">>],
    [rx |-> << Lit(<<"p","o","e">>) \o <<WordEnd>> >>,                      name |-> <<"P","o","e">>],
    [rx |-> << Lit(<<"c","a","n","a">>) \o <<Opt("v")>> \o Lit(<<"a">>) >>,       name |-> <<"C","a","n","v","a">>],
    [rx |-> << Lit(<<"m","i","d">>) \o <<AnyOpt>> \o Lit(<<"j","o","u","r","n","e","y">>) >>,    name |-> <<"M","i","d","j","o","u","r","n","e","y">>],
    [rx |-> << Lit(<<"d","e","e","p">>) \o <<AnyOpt>> \o Lit(<<"s","e","e","k">>) >>,      name |-> <<"D","e","e","p","s","e","e","k">>],
    [rx |-> << Lit(<<"k","l","i","n","g">>) \o <<AnyOpt>> \o Lit(<<"a","i">>) >>,       name |-> <<"K","l","i","n","g"," ","A","I">>],
    [rx |-> << Lit(<<"c","o","p","i","l","o","t">>) >>,                                 name |-> <<"C","o","p","i","l","o","t">>],
    [rx |-> << Lit(<<"g","a","m","m","a">>) >>,                                   name |-> <<"G","a","m","m","a">>],
    [rx |-> << Lit(<<"k","l">>) \o <<OptGrp(<<"i","n","g">>), Spaces>> \o Lit(<<"a","i">>) >>, name |-> <<"K","l","i","n","g"," ","A","I">>],
    [rx |-> << Lit(<<"o","p","e","n","a","i">>) >>,                                  name |-> <<"C","h","a","t","G","P","T">>],
    [rx |-> << Lit(<<"g","p","t","-">>) \o <<Digit>> >>,                       name |-> <<"C","h","a","t","G","P","T">>] >>

suggestion_patterns == <<
    [category |-> <<"n","o","_","s","u","g","g","e","s","t","i","o","n">>,
     rx |-> << Lit(<<"n","o">>), Lit(<<"n","o","n","e">>), Lit(<<"n","/","a">>), Lit(<<"n","o","t">>), Lit(<<"n","o","t","h","i","n","g">>),
               Lit(<<"n","i","l">>), Lit(<<"n","a","n">>), Lit(<<"n","u","l","l">>), Lit(<<"u","n","d","e","f","i","n","e","d">>) >>],
    [category |-> <<"t","r","a","i","n","i","n","g">>,
     rx |-> << Lit(<<"t","r","a","i","n">>), Lit(<<"g","u","i","d","e">>), Lit(<<"t","u","t","o","r","i","a","l">>), Lit(<<"d","o","c">>),
               Lit(<<"m","a","n","u","a","l">>), Lit(<<"h","e","l","p">>), Lit(<<"l","e","a","r","n">>), Lit(<<"e","d","u","c","a","t","e">>) >>],
    [category |-> <<"f","e","a","t","u","r","e","s">>,
     rx |-> << Lit(<<"f","e","a","t","u","r","e">>), Lit(<<"f","u","n","c","t","i","o","n">>), Lit(<<"t","o","o","l">>), Lit(<<"o","p","t","i","o","n">>),
               Lit(<<"c","a","p","a","b","i","l","i","t","y">>), Lit(<<"i","m","p","r","o","v","e">>), Lit(<<"e","n","h","a","n","c","e">>), Lit(<<"a","d","d">>) >>],
    [category |-> <<"i","n","t","e","g","r","a","t","i","o","n">>,
     rx |-> << Lit(<<"i","n","t","e","g","r","a","t">>), Lit(<<"c","o","n","n","e","c","t">>), Lit(<<"a","p","i">>), Lit(<<"s","y","s","t","e","m">>),
               Lit(<<"p","l","u","g","i","n">>), Lit(<<"b","r","i","d","g","e">>), Lit(<<"i","m","p","o","r","t">>), Lit(<<"e","x","p","o","r","t">>) >>],
    [category |-> <<"c","o","s","t">>,
     rx |-> << Lit(<<"c","o","s","t">>), Lit(<<"p","r","i","c","e">>), Lit(<<"c","h","e","a","p">>), Lit(<<"a","f","f","o","r","d">>),
               Lit(<<"l","i","c","e","n","s","e">>), Lit(<<"s","u","b","s","c","r","i","p","t","i","o","n">>), Lit(<<"f","e","e">>), Lit(<<"p","a","y">>) >>],
    [category |-> <<"a","c","c","u","r","a","c","y">>,
     rx |-> << Lit(<<"r","e","l","i","a","b","l","e">>), Lit(<<"a","c","c","u","r","a","t","e">>), Lit(<<"q","u","a","l","i","t","y">>), Lit(<<"p","r","e","c","i","s","e">>),
               Lit(<<"c","o","r","r","e","c","t">>), Lit(<<"b","e","t","t","e","r">>), Lit(<<"t","r","u","s","t">>), Lit(<<"d","e","p","e","n","d">>) >>] >>

freq_map == {
    [key |-> <<"d","a","i","l","y">>,   val |-> <<"D","a","i","l","y">>],
    [key |-> <<"w","e","e","k","l","y">>,  val |-> <<"W","e","e","k","l","y">>],
    [key |-> <<"m","o","n","t","h","l","y">>, val |-> <<"M","o","n","t","h","l","y">>],
    [key |-> <<"r","a","r","e","l","y">>,  val |-> <<"R","a","r","e","l","y">>],
    [key |-> <<"n","e","v","e","r">>,   val |-> <<"N","e","v","e","r">>] }

\* r'^(no|none|n/a|not|nothing|nil|nan|null|undefined)' of _clean_suggestions
no_suggestion_pattern ==
    << <<"n","o">>, <<"n","o","n","e">>, <<"n","/","a">>, <<"n","o","t">>, <<"n","o","t","h","i","n","g">>, <<"n","i","l">>, <<"n","a","n">>, <<"n","u","l","l">>, <<"u","n","d","e","f","i","n","e","d">> >>

\* the default of _clean_ratings' parameter scale
scale == 5

---------------------------------------------------------------------------
(* Cells and tables.  A cell is missing (NaN), a number or a text; a table *)
(* (DataFrame) has a header list, and per column a dtype and its cells.    *)
(* Numbers are integers: fractional ratings are outside the model.         *)

Missing == [k |-> "nan", n |-> 0, s |-> <<>>]
Num(n)  == [k |-> "num", n |-> n, s |-> <<>>]
Txt(s)  == [k |-> "str", n |-> 0, s |-> s]

IsMissing(c) == c.k = "nan"
IsNum(c)     == c.k = "num"
IsTxt(c)     == c.k = "str"

None == [none |-> TRUE, headers |-> <<>>, dtypes |-> <<>>, cols |-> <<>>, nrows |-> 0]

\* the dtype pandas infers for a parsed column: object when a cell is text
\* (or there are no cells), a numeric dtype otherwise
InferDtype(col) ==
    IF col = <<>> \/ \E i \in 1..Len(col) : IsTxt(col[i]) THEN "object" ELSE "num"

Frame(headers, cols, nrows) ==
    [none |-> FALSE, headers |-> headers,
     dtypes |-> [i \in 1..Len(cols) |-> InferDtype(cols[i])],
     cols |-> cols, nrows |-> nrows]

\* DataFrame.empty: an axis of length 0
Empty(t) == Len(t.headers) = 0 \/ t.nrows = 0

Positions(t, name) == {i \in 1..Len(t.headers) : t.headers[i] = name}

SetCol(t, i, cells, dtype) == [t EXCEPT !.cols[i] = cells, !.dtypes[i] = dtype]

Returned(t) == [raised |-> "none", t |-> t]
Raised(e)   == [raised |-> e, t |-> None]

---------------------------------------------------------------------------
(* _standardize_columns                                                    *)

\* str(col).lower().strip().replace(' ', '_')
NormKey(s) == ReplaceChar(Strip(Lower(s)), " ", "_")

\* variant.lower().strip().replace(' ', '_') of every variation of entry k
VariantKeys ==
    [k \in 1..Len(standard_columns) |->
        {NormKey(standard_columns[k].variations[v]) :
            v \in 1..Len(standard_columns[k].variations)}]

VariantMatches(key, k) == key \in VariantKeys[k]

\* the loop over standard_columns.items(), from entry k on: the first entry
\* with a matching variation names the column, else the column keeps its
\* original name
RECURSIVE MapColumn(_, _)
MapColumn(original_col, k) ==
    IF k > Len(standard_columns) THEN original_col
    ELSE IF VariantMatches(NormKey(original_col), k) THEN standard_columns[k].std
    ELSE MapColumn(original_col, k + 1)

column_mapping(original_col) == MapColumn(original_col, 1)

\* df.rename(columns=column_mapping)
StandardizeColumns(t) ==
    [t EXCEPT !.headers = [i \in 1..Len(t.headers) |-> column_mapping(t.headers[i])]]

---------------------------------------------------------------------------
(* The value normalizers.                                                  *)

IsoShape == <<"d","d","d","d","-","d","d","-","d","d"," ","d","d",":","d","d",":","d","d">>

\* pd.to_datetime(errors='coerce') then strftime('%Y-%m-%d %H:%M:%S'), for
\* the cells the model draws: a text already in that format is kept, a small
\* integer is nanoseconds after the epoch, any other text is NaT
ToDatetime(c) ==
    IF IsTxt(c)
    THEN IF /\ Len(c.s) = Len(IsoShape)
            /\ \A i \in 1..Len(c.s) :
                  IF IsoShape[i] = "d" THEN IsDigit(c.s[i]) ELSE c.s[i] = IsoShape[i]
         THEN c ELSE Missing
    ELSE IF IsNum(c)
    THEN IF c.n >= 0 THEN Txt(<<"1","9","7","0","-","0","1","-","0","1"," ","0","0",":","0","0",":","0","0">>) ELSE Txt(<<"1","9","6","9","-","1","2","-","3","1"," ","2","3",":","5","9",":","5","9">>)
    ELSE Missing

\* .fillna('Unknown').str.title(): a non-text cell that is not NaN comes out
\* of the .str accessor as NaN
CleanDepartmentCell(c) ==
    IF IsMissing(c) THEN Txt(<<"U","n","k","n","o","w","n">>)
    ELSE IF IsTxt(c) THEN Txt(Title(c.s))
    ELSE Missing

RECURSIVE FirstTool(_, _)
FirstTool(tool_name, k) ==
    IF k > Len(tool_standardization) THEN Title(tool_name)
    ELSE IF Search(tool_standardization[k].rx, tool_name) THEN tool_standardization[k].name
    ELSE FirstTool(tool_name, k + 1)

StandardizeTool(c) ==
    IF ~IsTxt(c) \/ Lower(c.s) \in {<<"n","a","n">>, <<"n","o","n","e">>, <<>>} THEN Txt(<<"U","n","k","n","o","w","n">>)
    ELSE Txt(FirstTool(Strip(Lower(c.s)), 1))

\* series.str.lower().map(freq_map).fillna(series.str.title())
CleanUsageFrequencyCell(c) ==
    IF ~IsTxt(c) THEN Missing
    ELSE LET hit == {m \in freq_map : m.key = Lower(c.s)}
         IN  IF hit # {} THEN Txt((CHOOSE m \in hit : TRUE).val)
             ELSE Txt(Title(c.s))

RECURSIVE DigitsValue(_)
DigitsValue(s) ==
    IF s = <<>> THEN 0
    ELSE 10 * DigitsValue(SubSeq(s, 1, Len(s) - 1))
         + ((CHOOSE i \in DOMAIN DigitChars : DigitChars[i] = s[Len(s)]) - 1)

AllDigits(s) == s # <<>> /\ \A i \in 1..Len(s) : IsDigit(s[i])

\* pd.to_numeric(errors='coerce') of one cell; of the texts, the model
\* parses the integer literals
ToNumeric(c) ==
    IF ~IsTxt(c) THEN c
    ELSE LET s == Strip(c.s)
         IN  IF AllDigits(s) THEN Num(DigitsValue(s))
             ELSE IF Len(s) > 1 /\ s[1] = "-" /\ AllDigits(Tail(s)) THEN Num(0 - DigitsValue(Tail(s)))
             ELSE Missing

\* Clip without its lower bound
ClipUpperOnly(c, lower, upper) ==
    IF IsNum(c) /\ c.n > upper THEN Num(upper) ELSE c

\* Series.clip(lower, upper) of one cell
Clip(c, lower, upper) ==
    IF ~IsNum(c) THEN c
    ELSE IF c.n < lower THEN Num(lower)
    ELSE IF c.n > upper THEN Num(upper)
    ELSE c

\* _clean_ratings with the scale shift of a zero-based column
CleanRatingsShifted(col) ==
    LET nums == [i \in 1..Len(col) |-> ToNumeric(col[i])]
        zeroBased == /\ \E i \in 1..Len(nums) : IsNum(nums[i]) /\ nums[i].n = 0
                     /\ \A i \in 1..Len(nums) : IsNum(nums[i]) => (0 <= nums[i].n /\ nums[i].n <= 4)
    IN  [i \in 1..Len(col) |->
            Clip(IF zeroBased /\ IsNum(nums[i]) THEN Num(nums[i].n + 1) ELSE nums[i], 1, scale)]

\* _clean_ratings
CleanRatings(col) == [i \in 1..Len(col) |-> Clip(ToNumeric(col[i]), 1, scale)]

RECURSIVE NatToStr(_)
NatToStr(n) ==
    IF n < 10 THEN <<DigitChars[n + 1]>>
    ELSE NatToStr(n \div 10) \o <<DigitChars[(n % 10) + 1]>>

\* Series.astype(str) of one cell; a numeric column holding a NaN is float64
AsStr(c, float) ==
    IF IsTxt(c) THEN c.s
    ELSE IF IsMissing(c) THEN <<"n","a","n">>
    ELSE (IF c.n < 0 THEN <<"-">> \o NatToStr(0 - c.n) ELSE NatToStr(c.n))
         \o (IF float THEN <<".","0">> ELSE <<>>)

IsPrefix(p, s) == Len(p) <= Len(s) /\ SubSeq(s, 1, Len(p)) = p

\* .replace(no_suggestion_pattern, 'No suggestions', regex=True): re.sub puts
\* the label in place of the first alternative that matches at the start
RECURSIVE ReplaceNoSuggestion(_, _)
ReplaceNoSuggestion(s, k) ==
    IF k > Len(no_suggestion_pattern) THEN s
    ELSE IF IsPrefix(no_suggestion_pattern[k], s)
         THEN <<"N","o"," ","s","u","g","g","e","s","t","i","o","n","s">> \o SubSeq(s, Len(no_suggestion_pattern[k]) + 1, Len(s))
    ELSE ReplaceNoSuggestion(s, k + 1)

\* _clean_suggestions, one cell
CleanSuggestionCell(c, float) ==
    LET lowered == Lower(Strip(AsStr(c, float)))
    IN  IF \A i \in 1..Len(lowered) : IsSpace(lowered[i]) THEN Missing
        ELSE Txt(ReplaceNoSuggestion(StripSpecial(lowered), 1))

\* the loop over suggestion_patterns with the last match winning
LastCategory(suggestion, k) ==
    LET hits == {j \in k..Len(suggestion_patterns) : Search(suggestion_patterns[j].rx, suggestion)}
    IN  IF hits = {} THEN <<"O","t","h","e","r"," ","s","u","g","g","e","s","t","i","o","n","s">>
        ELSE Title(ReplaceChar(
                 suggestion_patterns[CHOOSE j \in hits : \A i \in hits : i <= j].category,
                 "_", " "))

RECURSIVE FirstCategory(_, _)
FirstCategory(suggestion, k) ==
    IF k > Len(suggestion_patterns) THEN <<"O","t","h","e","r"," ","s","u","g","g","e","s","t","i","o","n","s">>
    ELSE IF Search(suggestion_patterns[k].rx, suggestion)
         THEN Title(ReplaceChar(suggestion_patterns[k].category, "_", " "))
    ELSE FirstCategory(suggestion, k + 1)

\* _categorize
Categorize(c) ==
    IF ~IsTxt(c) \/ Lower(c.s) = <<"n","o"," ","s","u","g","g","e","s","t","i","o","n","s">> THEN Txt(<<"N","o"," ","s","u","g","g","e","s","t","i","o","n","s">>)
    ELSE Txt(FirstCategory(Lower(c.s), 1))

---------------------------------------------------------------------------
(* clean_data.  Each step looks its column up by name; df_clean[name] is a *)
(* Series when one column bears the name and a DataFrame when several do,  *)
(* and the DataFrame has no .str accessor, is no argument of to_numeric    *)
(* and cannot be assembled into datetimes.                                 *)

The(S) == CHOOSE i \in S : TRUE

HasNaN(col) == \E r \in 1..Len(col) : IsMissing(col[r])

TimestampStep(t) ==
    LET at == Positions(t, <<"t","i","m","e","s","t","a","m","p">>)
    IN  IF at = {} THEN Returned(t)
        ELSE IF Cardinality(at) > 1 THEN Raised("ValueError")
        ELSE Returned(SetCol(t, The(at), [r \in 1..Len(t.cols[The(at)]) |-> ToDatetime(t.cols[The(at)][r])], "object"))

\* fillna('Unknown') leaves a numeric column without NaN numeric, and .str
\* then raises
DepartmentStep(t) ==
    LET at == Positions(t, <<"d","e","p","a","r","t","m","e","n","t">>)
    IN  IF at = {} THEN Returned(t)
        ELSE IF Cardinality(at) > 1 THEN Raised("AttributeError")
        ELSE IF t.dtypes[The(at)] = "num" /\ ~HasNaN(t.cols[The(at)])
             THEN Raised("AttributeError")
        ELSE Returned(SetCol(t, The(at), [r \in 1..Len(t.cols[The(at)]) |-> CleanDepartmentCell(t.cols[The(at)][r])], "object"))

\* _clean_ai_tools; the tables of the model bear the name ai_tool at most once
AiToolStep(t) ==
    LET at == Positions(t, <<"a","i","_","t","o","o","l">>)
    IN  IF Cardinality(at) # 1 THEN Returned(t)
        ELSE Returned(SetCol(t, The(at), [r \in 1..Len(t.cols[The(at)]) |-> StandardizeTool(t.cols[The(at)][r])], "object"))

\* _clean_usage_frequency: series.str raises on a numeric column
UsageFrequencyStep(t) ==
    LET at == Positions(t, <<"u","s","a","g","e","_","f","r","e","q","u","e","n","c","y">>)
    IN  IF at = {} THEN Returned(t)
        ELSE IF Cardinality(at) > 1 \/ t.dtypes[The(at)] = "num"
             THEN Raised("AttributeError")
        ELSE Returned(SetCol(t, The(at), [r \in 1..Len(t.cols[The(at)]) |-> CleanUsageFrequencyCell(t.cols[The(at)][r])], "object"))

RatingStep(t, name) ==
    LET at == Positions(t, name)
    IN  IF at = {} THEN Returned(t)
        ELSE IF Cardinality(at) > 1 THEN Raised("TypeError")
        ELSE Returned(SetCol(t, The(at), CleanRatings(t.cols[The(at)]), "num"))

EaseOfUseStep(t) == RatingStep(t, <<"e","a","s","e","_","o","f","_","u","s","e">>)

TimeSavedStep(t) == RatingStep(t, <<"t","i","m","e","_","s","a","v","e","d">>)

\* df['suggestion_category'] = ...: in place when the column exists, else
\* appended as the last column
AssignCategory(t, cells) ==
    LET at == Positions(t, <<"s","u","g","g","e","s","t","i","o","n","_","c","a","t","e","g","o","r","y">>)
    IN  IF at # {} THEN SetCol(t, The(at), cells, "object")
        ELSE [t EXCEPT !.headers = Append(@, <<"s","u","g","g","e","s","t","i","o","n","_","c","a","t","e","g","o","r","y">>),
                       !.dtypes = Append(@, "object"),
                       !.cols = Append(@, cells)]

CleanSuggestions(t, i) ==
    LET float == t.dtypes[i] = "num" /\ HasNaN(t.cols[i])
    IN  [r \in 1..Len(t.cols[i]) |-> CleanSuggestionCell(t.cols[i][r], float)]

SuggestionsStep(t) ==
    LET at == Positions(t, <<"s","u","g","g","e","s","t","i","o","n","s">>)
    IN  IF at = {} THEN Returned(t)
        ELSE IF Cardinality(at) > 1 THEN Raised("AttributeError")
        ELSE LET cleaned == SetCol(t, The(at), CleanSuggestions(t, The(at)), "object")
             IN  Returned(AssignCategory(cleaned, [r \in 1..Len(cleaned.cols[The(at)]) |-> Categorize(cleaned.cols[The(at)][r])]))

\* df_clean.loc[:, ~df_clean.columns.duplicated()]: of the columns that bear
\* one name, the first is kept
RECURSIVE KeepAt(_, _)
KeepAt(s, keep) ==
    IF s = <<>> THEN <<>>
    ELSE (IF Len(s) \in keep THEN KeepAt(SubSeq(s, 1, Len(s) - 1), keep) \o <<s[Len(s)]>>
          ELSE KeepAt(SubSeq(s, 1, Len(s) - 1), keep))

DropDuplicated(t) ==
    LET keep == {i \in 1..Len(t.headers) : \A j \in 1..(i - 1) : t.headers[j] # t.headers[i]}
    IN  [t EXCEPT !.headers = KeepAt(@, keep), !.dtypes = KeepAt(@, keep),
                  !.cols = KeepAt(@, keep)]

\* clean_data: what it returns or raises.  The steps are taken in the order
\* of the code, each on the table the step before returned (the one member
\* of the set before); a step that raises ends the call.
CleanData(t) ==
    IF t.none THEN Raised("ValueError: No data provided")
    ELSE LET s1 == {TimestampStep(StandardizeColumns(t))}
             s2 == {IF r.raised # "none" THEN r ELSE DepartmentStep(r.t) : r \in s1}
             s3 == {IF r.raised # "none" THEN r ELSE AiToolStep(r.t) : r \in s2}
             s4 == {IF r.raised # "none" THEN r ELSE UsageFrequencyStep(r.t) : r \in s3}
             s5 == {IF r.raised # "none" THEN r ELSE EaseOfUseStep(r.t) : r \in s4}
             s6 == {IF r.raised # "none" THEN r ELSE TimeSavedStep(r.t) : r \in s5}
             s7 == {IF r.raised # "none" THEN r ELSE SuggestionsStep(r.t) : r \in s6}
         IN  The({IF r.raised # "none" THEN r ELSE Returned(DropDuplicated(r.t)) : r \in s7})

\* load_data without its check of df.empty
LoadDataUnchecked(t) == Returned(t)

\* load_data once the file is parsed into the table t: an empty table is
\* refused (the ValueError raised at line 58 is wrapped at line 66)
LoadDataResult(t) ==
    IF Empty(t) THEN Raised("ValueError: Error loading file: Empty file uploaded")
    ELSE Returned(t)

---------------------------------------------------------------------------
(* The bounded inputs: the tables a caller hands in.  The raw headers of a *)
(* table are pairwise distinct, as the CSV and JSON parsers deliver them.  *)

MaxHeaders == 2
MaxRatingRows == 2
MaxTokens == 2
MaxMixedRows == 2

\* the sequences of at most n pairwise distinct members of S
RECURSIVE InjectiveSeqs(_, _)
InjectiveSeqs(S, n) ==
    IF n = 0 THEN {<<>>}
    ELSE LET shorter == InjectiveSeqs(S, n - 1)
         IN  shorter \cup UNION {{Append(q, x) : x \in S \ Range(q)} : q \in shorter}

SeqsUpTo(S, n) == UNION {[1..m -> S] : m \in 1..n}

HeaderPool ==
    { <<"A","I"," ","T","o","o","l">>, <<"a","i","_","t","o","o","l">>, <<" ","a","i"," "," "," ","t","o","o","l"," ">>, <<"D","e","p","a","r","t","m","e","n","t">>, <<"d","e","p","t">>,
      <<"p","u","r","p","o","s","e">>, <<"P","u","r","p","o","s","e">>, <<"C","o","m","m","e","n","t","s">>, <<"c","o","m","m","e","n","t","s"," ">>,
      <<"d","a","t","e">>, <<"t","i","m","e">>, <<"S","u","g","g","e","s","t","i","o","n","s">> }

\* one row; the cell of column j is the text cj
HeaderTables ==
    { Frame(hs, [j \in 1..Len(hs) |-> <<Txt(<<"c", DigitChars[j + 1]>>)>>], 1) :
        hs \in { q \in InjectiveSeqs(HeaderPool, MaxHeaders) :
                    /\ q # <<>>
                    /\ Cardinality({i \in 1..Len(q) : column_mapping(q[i]) = <<"a","i","_","t","o","o","l">>}) <= 1 } }

RatingHeaders == { <<"e","a","s","e","_","o","f","_","u","s","e">>, <<"T","i","m","e"," ","S","a","v","e","d">> }

RatingPool ==
    { Num(0 - 1), Num(0), Num(1), Num(3), Num(4), Num(5), Num(7),
      Txt(<<"4">>), Txt(<<"a","b","c">>), Missing }

\* the column [0,1,2,3,4] of a zero-based export
ZeroBased == <<Num(0), Num(1), Num(2), Num(3), Num(4)>>

RatingTables ==
    { Frame(<<h>>, <<col>>, Len(col)) :
        h \in RatingHeaders, col \in SeqsUpTo(RatingPool, MaxRatingRows) \cup {ZeroBased} }

SuggestionTokens ==
    { <<"n","o">>, <<"n","o","n","e">>, <<"N","/","A">>, <<"n","o","t">>, <<"t","h","i","n","g">>, <<" ">>, <<"a","d","d">>, <<"a","p","i">>, <<"t","r","a","i","n">>,
      <<"c","o","s","t">>, <<"b","e","t","t","e","r">>, <<"o","k">> }

RECURSIVE TokenTexts(_)
TokenTexts(n) ==
    IF n = 0 THEN {<<>>}
    ELSE LET shorter == TokenTexts(n - 1)
         IN  shorter \cup {p \o tk : p \in shorter, tk \in SuggestionTokens}

SuggestionTables ==
    { Frame(<<<<"S","u","g","g","e","s","t","i","o","n","s">>>>, <<<<c>>>>, 1) :
        c \in {Txt(s) : s \in TokenTexts(MaxTokens)} \cup {Missing, Num(3)} }

MixedHeaderPool == { <<"D","e","p","a","r","t","m","e","n","t">>, <<"U","s","a","g","e"," ","o","f"," ","A","I"," ","t","o","o","l","s">> }

MixedCellPool == { Num(3), Missing, Txt(<<" "," ","i","t"," "," ">>) }

MixedHeaderLists ==
    {<<>>} \cup {<<a>> : a \in MixedHeaderPool}
           \cup {q \in MixedHeaderPool \X MixedHeaderPool : q[1] # q[2]}

MixedTablesOf(hs, n) ==
    { Frame(hs, cols, n) : cols \in [1..Len(hs) -> [1..n -> MixedCellPool]] }

\* no column, one column or two, no row or more, with any mix of cells
MixedTables ==
    UNION { MixedTablesOf(hs, n) : hs \in MixedHeaderLists, n \in 0..MaxMixedRows }

Tables == HeaderTables \cup RatingTables \cup SuggestionTables \cup MixedTables

---------------------------------------------------------------------------
(* The session: a table comes in through load_data (the application) or is *)
(* passed to clean_data directly (the library), is cleaned, and the result *)
(* may be handed to clean_data again.                                      *)

Init ==
    /\ pc = "idle"
    /\ df = None
    /\ out = None
    /\ out2 = None
    /\ err = "none"

\* load_data: the parsed file is t
LoadData(t) ==
    /\ pc = "idle"
    /\ df' = t
    /\ LET r == LoadDataResult(t)
       IN  IF r.raised # "none"
           THEN pc' = "load_failed" /\ err' = r.raised
           ELSE pc' = "loaded" /\ err' = err
    /\ UNCHANGED <<out, out2>>

\* a caller of the library builds the argument of clean_data itself
PassTable(t) ==
    /\ pc = "idle"
    /\ df' = t
    /\ pc' = "passed"
    /\ UNCHANGED <<out, out2, err>>

\* clean_data(df)
Clean ==
    /\ pc \in {"loaded", "passed"}
    /\ LET r == CleanData(df)
       IN  IF r.raised # "none"
           THEN pc' = "clean_failed" /\ err' = r.raised /\ out' = out
           ELSE pc' = "cleaned" /\ err' = err /\ out' = r.t
    /\ UNCHANGED <<df, out2>>

\* clean_data on the table clean_data returned
Reclean ==
    /\ pc = "cleaned"
    /\ LET r == CleanData(out)
       IN  IF r.raised # "none"
           THEN pc' = "reclean_failed" /\ err' = r.raised /\ out2' = out2
           ELSE pc' = "recleaned" /\ err' = err /\ out2' = r.t
    /\ UNCHANGED <<df, out>>

\* the call is over; the cleaner keeps nothing of it
Finish ==
    /\ pc \in {"load_failed", "clean_failed", "cleaned", "recleaned", "reclean_failed"}
    /\ pc' = "idle"
    /\ df' = None
    /\ out' = None
    /\ out2' = None
    /\ err' = "none"

Next ==
    \/ \E t \in Tables : LoadData(t)
    \/ \E t \in Tables \cup {None} : PassTable(t)
    \/ Clean
    \/ Reclean
    \/ Finish

Spec == Init /\ [][Next]_vars

---------------------------------------------------------------------------
(* Vocabulary of the properties.                                           *)

CanonicalNames == {standard_columns[k].std : k \in 1..Len(standard_columns)}

RatingNames == { <<"e","a","s","e","_","o","f","_","u","s","e">>, <<"t","i","m","e","_","s","a","v","e","d">> }

HasOne(t, name) == Cardinality(Positions(t, name)) = 1

Col(t, name) == t.cols[The(Positions(t, name))]

\* the name each header of t takes before any collision is handled
BaseNames(t) == [i \in 1..Len(t.headers) |-> column_mapping(t.headers[i])]

NoCollision(t) ==
    \A i, j \in 1..Len(t.headers) : i # j => BaseNames(t)[i] # BaseNames(t)[j]

\* the column of df that clean_data treats under the canonical name
SourceOf(name) == {i \in 1..Len(df.headers) : BaseNames(df)[i] = name}

AllText(t) ==
    \A i \in 1..Len(t.cols) : \A r \in 1..Len(t.cols[i]) : IsTxt(t.cols[i][r])

RatingColumns(t) == {i \in 1..Len(t.headers) : t.headers[i] \in RatingNames}

Complete(t, nrows) ==
    /\ ~t.none
    /\ t.nrows = nrows
    /\ Len(t.cols) = Len(t.headers)
    /\ \A i \in 1..Len(t.cols) : Len(t.cols[i]) = nrows

---------------------------------------------------------------------------
(* C1 *)

Occurrence(b, i) == Cardinality({j \in 1..i : b[j] = b[i]})

\* the names of section 4.2: the first header to take a name keeps it, the
\* n-th header to take it is given the suffix _n
SuffixedNames(b) ==
    [i \in 1..Len(b) |->
        IF Occurrence(b, i) = 1 THEN b[i]
        ELSE b[i] \o <<"_">> \o NatToStr(Occurrence(b, i))]

\* C1: for every header list, colliding ones included, clean_data yields
\* exactly one output column per input header, in input order, under
\* pairwise distinct names, a later colliding header being renamed
\* <name>_2, <name>_3, ...; no colliding column is overwritten or dropped.
C1_OneColumnPerHeader ==
    (pc \in {"cleaned", "clean_failed"} /\ ~df.none /\ ~Empty(df) /\ AllText(df))
    => /\ pc = "cleaned"
       /\ Len(out.headers) >= Len(df.headers)
       /\ SubSeq(out.headers, 1, Len(df.headers)) = SuffixedNames(BaseNames(df))

---------------------------------------------------------------------------
(* C2 *)

IsSeparator(c) == IsSpace(c) \/ c = "_"

RECURSIVE CollapseSeparators(_)
CollapseSeparators(s) ==
    IF s = <<>> THEN <<>>
    ELSE IF IsSeparator(s[1])
         THEN IF Len(s) > 1 /\ IsSeparator(s[2]) THEN CollapseSeparators(Tail(s))
              ELSE <<"_">> \o CollapseSeparators(Tail(s))
    ELSE <<s[1]>> \o CollapseSeparators(Tail(s))

\* the normalized key of section 4.2: lowercased, trimmed, every run of
\* separators collapsed to one
CollapsedKey(h) == CollapseSeparators(Strip(Lower(h)))

KnownHeaders == HeaderPool \cup RatingHeaders \cup MixedHeaderPool

\* C2: a header that differs from one resolving to the canonical field F
\* only in letter case, surrounding whitespace or the run of spaces or
\* underscores used as separator resolves to F too, and an unmatched header
\* passes through under its lowercased, trimmed, separator-collapsed name.
C2_StableUnderCaseAndWhitespace ==
    (pc = "cleaned" /\ Len(df.headers) = 1)
    => LET h == df.headers[1]
           F == {column_mapping(g) :
                    g \in {g \in KnownHeaders : CollapsedKey(g) = CollapsedKey(h)}}
                \cap CanonicalNames
       IN  IF F # {} THEN out.headers[1] \in F
           ELSE out.headers[1] = CollapsedKey(h)

---------------------------------------------------------------------------
(* C3 *)

Taxonomy ==
    { <<"N","o"," ","s","u","g","g","e","s","t","i","o","n","s">>, <<"T","r","a","i","n","i","n","g","/","g","u","i","d","a","n","c","e">>, <<"F","e","a","t","u","r","e"," ","i","m","p","r","o","v","e","m","e","n","t","s">>,
      <<"B","e","t","t","e","r"," ","i","n","t","e","g","r","a","t","i","o","n">>, <<"C","o","s","t"," ","r","e","d","u","c","t","i","o","n">>, <<"I","m","p","r","o","v","e","d"," ","a","c","c","u","r","a","c","y">>,
      <<"O","t","h","e","r"," ","s","u","g","g","e","s","t","i","o","n","s">> }

\* C3: every suggestion is given exactly one label, and the label is one of
\* the seven of the closed taxonomy.
C3_LabelInTaxonomy ==
    (pc = "cleaned" /\ HasOne(out, <<"s","u","g","g","e","s","t","i","o","n","s">>))
    => /\ HasOne(out, <<"s","u","g","g","e","s","t","i","o","n","_","c","a","t","e","g","o","r","y">>)
       /\ \A r \in 1..out.nrows :
             /\ IsTxt(Col(out, <<"s","u","g","g","e","s","t","i","o","n","_","c","a","t","e","g","o","r","y">>)[r])
             /\ Col(out, <<"s","u","g","g","e","s","t","i","o","n","_","c","a","t","e","g","o","r","y">>)[r].s \in Taxonomy

---------------------------------------------------------------------------
(* C4 *)

NoOpinionWords ==
    { <<"n","o">>, <<"n","o","n","e">>, <<"n","/","a">>, <<"n","o","t">>, <<"n","o","t","h","i","n","g">>, <<"n","i","l">>, <<"n","u","l","l">>, <<"u","n","d","e","f","i","n","e","d">> }

\* C4: a suggestion that is one of the no-opinion words (n/a among them) is
\* replaced wholesale by the literal "No suggestions" and is categorized
\* "No suggestions".
C4_NoOpinionReplacedWholesale ==
    (pc = "cleaned" /\ HasOne(out, <<"s","u","g","g","e","s","t","i","o","n","s">>) /\ Cardinality(SourceOf(<<"s","u","g","g","e","s","t","i","o","n","s">>)) = 1)
    => \A r \in 1..out.nrows :
          LET c == df.cols[The(SourceOf(<<"s","u","g","g","e","s","t","i","o","n","s">>))][r]
          IN  (IsTxt(c) /\ Strip(Lower(c.s)) \in NoOpinionWords)
              => /\ Col(out, <<"s","u","g","g","e","s","t","i","o","n","s">>)[r] = Txt(<<"N","o"," ","s","u","g","g","e","s","t","i","o","n","s">>)
                 /\ Col(out, <<"s","u","g","g","e","s","t","i","o","n","_","c","a","t","e","g","o","r","y">>)[r] = Txt(<<"N","o"," ","s","u","g","g","e","s","t","i","o","n","s">>)

---------------------------------------------------------------------------
(* C5 *)

RoundTripColumns ==
    { <<"d","e","p","a","r","t","m","e","n","t">>, <<"a","i","_","t","o","o","l">>, <<"u","s","a","g","e","_","f","r","e","q","u","e","n","c","y">>, <<"s","u","g","g","e","s","t","i","o","n","s">>,
      <<"s","u","g","g","e","s","t","i","o","n","_","c","a","t","e","g","o","r","y">>, <<"e","a","s","e","_","o","f","_","u","s","e">>, <<"t","i","m","e","_","s","a","v","e","d">> }

\* C5: cleaning a cleaned table again succeeds and leaves the headers, the
\* categorical columns and the rating columns as they are.
C5_RoundTrip ==
    /\ pc # "reclean_failed"
    /\ pc = "recleaned"
       => /\ out2.headers = out.headers
          /\ \A i \in 1..Len(out.headers) :
                out.headers[i] \in RoundTripColumns => out2.cols[i] = out.cols[i]

---------------------------------------------------------------------------
(* C6 *)

EmptyFileError == "ValueError: Error loading file: Empty file uploaded"

---------------------------------------------------------------------------
(* C7 *)

\* C7: on a table with at least one row and one column, whatever its cells
\* and headers, clean_data does not raise and returns as many rows as it
\* was given.
C7_NeverRaises ==
    (pc \in {"cleaned", "clean_failed"} /\ ~df.none /\ ~Empty(df) /\ NoCollision(df))
    => (pc = "cleaned" /\ Complete(out, df.nrows))

---------------------------------------------------------------------------
(* C8 *)

InRatingRange(c) == IsMissing(c) \/ (IsNum(c) /\ 1 <= c.n /\ c.n <= 5)

\* C8: rating normalization maps every cell to missing or to a number in
\* [1,5] (a number stays a number, a missing value stays missing), and
\* normalizing the normalized column again returns the same column.
C8_RatingsBoundedIdempotent ==
    /\ pc \in {"cleaned", "recleaned"}
       => \A i \in RatingColumns(out) : \A r \in 1..out.nrows :
             /\ InRatingRange(out.cols[i][r])
             /\ Len(df.headers) = 1
                => /\ IsNum(df.cols[i][r]) => IsNum(out.cols[i][r])
                   /\ IsMissing(df.cols[i][r]) => IsMissing(out.cols[i][r])
    /\ pc = "recleaned"
       => \A i \in RatingColumns(out) :
             out2.headers[i] = out.headers[i] /\ out2.cols[i] = out.cols[i]

C8_Witness ==
    /\ pc = "recleaned"
    /\ \E i \in RatingColumns(out) :
          /\ df.cols[i] = <<Num(7), Txt(<<"a","b","c">>)>>
          /\ out.cols[i] = <<Num(5), Missing>>
          /\ out2.cols[i] = <<Num(5), Missing>>

---------------------------------------------------------------------------
(* C9 *)

SpansZeroToFour(col) ==
    /\ \A r \in 1..Len(col) : IsNum(col[r]) /\ 0 <= col[r].n /\ col[r].n <= 4
    /\ \E r \in 1..Len(col) : col[r].n = 0
    /\ \E r \in 1..Len(col) : col[r].n = 4

\* C9, as stated: a rating column whose values span [0,4] is shifted by
\* one, so that [0,1,2,3,4] becomes [1,2,3,4,5].
C9_ZeroBasedShifted ==
    (pc = "cleaned" /\ Len(df.headers) = 1)
    => \A i \in RatingColumns(out) :
          SpansZeroToFour(df.cols[i])
          => \A r \in 1..out.nrows : out.cols[i][r] = Num(df.cols[i][r].n + 1)

\* C9, amended: rating normalization applies no scale shift; a column whose
\* values span [0,4] is only clamped to [1,5], so 0 becomes 1 and every
\* other value is kept: [0,1,2,3,4] becomes [1,1,2,3,4], and the distinct
\* inputs 0 and 1 come out equal.
C9_ZeroBasedClampedOnly ==
    (pc = "cleaned" /\ Len(df.headers) = 1)
    => \A i \in RatingColumns(out) :
          SpansZeroToFour(df.cols[i])
          => \A r \in 1..out.nrows :
                out.cols[i][r] = Num(IF df.cols[i][r].n = 0 THEN 1 ELSE df.cols[i][r].n)

C9_Witness ==
    /\ pc = "cleaned"
    /\ \E i \in RatingColumns(out) :
          /\ df.cols[i] = ZeroBased
          /\ out.cols[i] = <<Num(1), Num(1), Num(2), Num(3), Num(4)>>

---------------------------------------------------------------------------
(* C10 *)

Matching(s) ==
    {k \in 1..Len(suggestion_patterns) : Search(suggestion_patterns[k].rx, Lower(s))}

\* the labels of the categories no-suggestion, training, features,
\* integration, cost and accuracy, in that order
CategoryLabels ==
    << { <<"N","o"," ","s","u","g","g","e","s","t","i","o","n","s">>, <<"N","o"," ","S","u","g","g","e","s","t","i","o","n">> }, { <<"T","r","a","i","n","i","n","g">> }, { <<"F","e","a","t","u","r","e","s">> },
       { <<"I","n","t","e","g","r","a","t","i","o","n">> }, { <<"C","o","s","t">> }, { <<"A","c","c","u","r","a","c","y">> } >>

FirstMatchLabelled(t) ==
    HasOne(t, <<"s","u","g","g","e","s","t","i","o","n","s">>)
    => \A r \in 1..t.nrows :
          LET c == Col(t, <<"s","u","g","g","e","s","t","i","o","n","s">>)[r]
              label == Col(t, <<"s","u","g","g","e","s","t","i","o","n","_","c","a","t","e","g","o","r","y">>)[r]
          IN  IsTxt(c)
              => IF Matching(c.s) = {} THEN label = Txt(<<"O","t","h","e","r"," ","s","u","g","g","e","s","t","i","o","n","s">>)
                 ELSE /\ IsTxt(label)
                      /\ \E k \in Matching(c.s) :
                            /\ \A j \in Matching(c.s) : k <= j
                            /\ label.s \in CategoryLabels[k]

\* C10: the label of a suggestion is that of the earliest-declared category
\* (no-suggestion, training, features, integration, cost, accuracy) whose
\* pattern matches it, and "Other suggestions" when no pattern matches.
C10_FirstMatchWins ==
    /\ pc \in {"cleaned", "recleaned"} => FirstMatchLabelled(out)
    /\ pc = "recleaned" => FirstMatchLabelled(out2)

C10_Witness ==
    /\ pc = "cleaned"
    /\ HasOne(out, <<"s","u","g","g","e","s","t","i","o","n","s">>)
    /\ Col(out, <<"s","u","g","g","e","s","t","i","o","n","s">>)[1] = Txt(<<"a","d","d","a","p","i">>)
    /\ Matching(<<"a","d","d","a","p","i">>) = {3, 4}
    /\ Col(out, <<"s","u","g","g","e","s","t","i","o","n","_","c","a","t","e","g","o","r","y">>)[1] = Txt(<<"F","e","a","t","u","r","e","s">>)
=============================================================================
